---- MODULE Spec2Model ----
(***************************************************************************)
(* Model of GaltonBoard (src/bean_machine.py): the per-ball trajectory     *)
(* (calculate_bin_index), the aggregation loop and the smoothing pass      *)
(* (simulate, smooth_slot_counts), the num_balls setter and the rendering  *)
(* of the histogram onto the canvas (generate_image, draw_histogram,       *)
(* draw_bar, calculate_bar_height).                                        *)
(*                                                                         *)
(* Floats are fixed-point integers in units of 1/Scale, computed exactly:  *)
(* momentum picks up one factor 0.8, hence one decimal, per row, so with   *)
(* Scale = 10^(MaxRows + 1) no product of the row loop is rounded.  The    *)
(* rounding of IEEE doubles (errors of a few ulp) is not modelled.         *)
(* Python lists keep their 0-based indices: slot_counts and slots are      *)
(* functions on 0 .. board_width - 1.                                      *)
(***************************************************************************)
EXTENDS Integers, Sequences, FiniteSets, TLC

\* ---------------------------------------------------------------- bounds
MaxRows == 2
MaxBalls == 5

Scale == 10 ^ (MaxRows + 1)

Widths == {4, 5, 9}
Heights == {3}
Rows == 0 .. MaxRows
BallCounts == 0 .. MaxBalls

\* the values gauss(0, initial_variance) is sampled at (gauss is unbounded)
GaussDraws == {(0 - 5) * Scale, (0 - 2) * Scale, 0, 5 * Scale}
\* the values random() is sampled at, all in [0, 1)
UniformDraws == {0, (47 * Scale) \div 100, (9 * Scale) \div 10}

\* ------------------------------------------------------- class constants
PEG_RADIUS == 4
window_size == 3
BACKGROUND_COLOR == "BACKGROUND_COLOR"
LEFT_HALF_COLOR == "LEFT_HALF_COLOR"
RIGHT_HALF_COLOR == "RIGHT_HALF_COLOR"

elasticity == (7 * Scale) \div 10
peg_offset == (PEG_RADIUS * Scale) \div 2
damping_factor == (8 * Scale) \div 10
multiplier == PEG_RADIUS * 2

VARIABLES
    num_rows, num_balls, board_width, board_height,  \* configuration
    slot_counts,      \* self.slot_counts
    image,            \* self.image: pixel (x, y) -> colour
    drawn,            \* the rectangle calls of the latest draw_histogram
    pc,               \* "idle" | "loop" (simulate) | "row" (calculate_bin_index)
    slots, n, i,      \* simulate: raw counts, range(self.num_balls), done balls
    bin_index,        \* simulate: the value calculate_bin_index returned last
    position, momentum, row,   \* calculate_bin_index
    last,             \* the latest call on the board
    result            \* how the latest simulate() ended

vars == <<num_rows, num_balls, board_width, board_height, slot_counts, image,
          drawn, pc, slots, n, i, bin_index, position, momentum, row, last,
          result>>

config == <<num_rows, board_width, board_height>>
ballLocals == <<position, momentum, row>>

\* ---------------------------------------------------------------- helpers
Max(a, b) == IF a >= b THEN a ELSE b
Min(a, b) == IF a <= b THEN a ELSE b
Abs(a) == IF a >= 0 THEN a ELSE 0 - a

\* [0] * w
ZeroList(w) == [k \in 0 .. w - 1 |-> 0]

\* len(list)
Len0(list) == Cardinality(DOMAIN list)

\* sum(list[start:end]) with 0 <= start, end <= len(list)
RECURSIVE SumSlice(_, _, _)
SumSlice(list, start, end) ==
    IF start >= end THEN 0
    ELSE list[start] + SumSlice(list, start + 1, end)

\* max(list) of a non-empty list
RECURSIVE MaxFrom(_, _)
MaxFrom(list, k) ==
    IF k = Len0(list) - 1 THEN list[k]
    ELSE Max(list[k], MaxFrom(list, k + 1))

\* a * b of two floats (split so that no intermediate exceeds 32 bits)
Mul(a, b) == (a \div Scale) * b + ((a % Scale) * b) \div Scale

\* int(x) of a float: truncation towards zero
IntTrunc(x) == IF x >= 0 THEN x \div Scale ELSE 0 - ((0 - x) \div Scale)

\* ------------------------------------------------------------- __init__
Init ==
    /\ num_rows \in Rows
    /\ num_balls \in BallCounts
    /\ board_width \in Widths
    /\ board_height \in Heights
    /\ slot_counts = ZeroList(board_width)
    /\ image = [p \in (0 .. board_width - 1) \X (0 .. board_height - 1)
                    |-> BACKGROUND_COLOR]
    /\ drawn = << >>
    /\ pc = "idle"
    /\ slots = << >>
    /\ n = 0
    /\ i = 0
    /\ bin_index = 0
    /\ position = 0
    /\ momentum = 0
    /\ row = 0
    /\ last = "__init__"
    /\ result = "none"

\* ------------------------------------------------------ num_balls.setter
\* a setter that also clears the published counts
SetNumBallsReset ==
    /\ pc = "idle"
    /\ \E count \in BallCounts : num_balls' = count
    /\ slot_counts' = ZeroList(board_width)
    /\ last' = "num_balls"
    /\ UNCHANGED <<config, image, drawn, pc, slots, n, i, bin_index,
                   ballLocals, result>>

SetNumBalls ==
    /\ pc = "idle"
    /\ \E count \in BallCounts : num_balls' = count
    /\ last' = "num_balls"
    /\ UNCHANGED <<config, slot_counts, image, drawn, pc, slots, n, i,
                   bin_index, ballLocals, result>>

\* ------------------------------------------------------------- simulate
\* slots = [0] * board_width; the range of the for loop is fixed here
SimulateBegin ==
    /\ pc = "idle"
    /\ slots' = ZeroList(board_width)
    /\ n' = num_balls
    /\ i' = 0
    /\ pc' = "loop"
    /\ last' = "simulate"
    /\ result' = "running"
    /\ UNCHANGED <<config, num_balls, slot_counts, image, drawn, bin_index,
                   ballLocals>>

\* calculate_bin_index, entry: the jittered drop point
StartPosition(g) == (board_width * Scale) \div 2 + g

BallBegin ==
    /\ pc = "loop"
    /\ i < n
    /\ \E g \in GaussDraws : position' = StartPosition(g)
    /\ momentum' = 0
    /\ row' = 0
    /\ pc' = "row"
    /\ UNCHANGED <<config, num_balls, slot_counts, image, drawn, slots, n, i,
                   bin_index, last, result>>

\* calculate_bin_index, one pass of the row loop
PegCenter(pos, r) == pos + (r % 2) * peg_offset
Distance(pos, r) == (pos - PegCenter(pos, r)) \div PEG_RADIUS
BounceProb(pos, r) ==
    Max((2 * Scale) \div 10,
        Min((8 * Scale) \div 10, (5 * Scale) \div 10 + Distance(pos, r) \div 10))
Direction(u, pos, r) == IF u < BounceProb(pos, r) THEN 1 ELSE 0 - 1
BounceForce(pos, r) == Mul(Scale - Abs(Distance(pos, r)), elasticity)
NextMomentum(m, u, pos, r) ==
    Mul(m, damping_factor)
        + Direction(u, pos, r) * BounceForce(pos, r) * multiplier
Clamp(pos) ==
    Max(PEG_RADIUS * Scale, Min((board_width - PEG_RADIUS) * Scale, pos))

BallRow ==
    /\ pc = "row"
    /\ row < num_rows
    /\ \E u \in UniformDraws :
          /\ momentum' = NextMomentum(momentum, u, position, row)
          /\ position' = Clamp(position + momentum')
    /\ row' = row + 1
    /\ UNCHANGED <<config, num_balls, slot_counts, image, drawn, pc, slots, n,
                   i, bin_index, last, result>>

\* return int(position), then slots[bin_index] += 1 in simulate
ValidIndex(idx, w) == idx >= 0 - w /\ idx < w
ListIndex(idx, w) == IF idx < 0 THEN idx + w ELSE idx
\* slots[bin_index] = 1 in place of += 1
IncrementSet(list, idx) ==
    [list EXCEPT ![ListIndex(idx, Len0(list))] = 1]

Increment(list, idx) ==
    [list EXCEPT ![ListIndex(idx, Len0(list))] = @ + 1]

BallLands ==
    /\ pc = "row"
    /\ row = num_rows
    /\ bin_index' = IntTrunc(position)
    /\ IF ValidIndex(bin_index', board_width)
       THEN /\ slots' = Increment(slots, bin_index')
            /\ i' = i + 1
            /\ pc' = "loop"
            /\ UNCHANGED result
       ELSE \* IndexError leaves simulate; its locals are gone
            /\ slots' = << >>
            /\ i' = 0
            /\ pc' = "idle"
            /\ result' = "raised"
    /\ position' = 0
    /\ momentum' = 0
    /\ row' = 0
    /\ UNCHANGED <<config, num_balls, slot_counts, image, drawn, n, last>>

\* smooth_slot_counts(slots), writing self.slot_counts in place
SmoothAt(list, k) ==
    LET start == Max(0, k - window_size)
        end == Min(Len0(list), k + window_size + 1)
    IN  SumSlice(list, start, end) \div (end - start)

\* range(len(slots) - window_size) in place of range(len(self.slot_counts)),
\* the result rebuilt as a new list
smooth_shrunk(self_slot_counts, list) ==
    [k \in 0 .. Len0(list) - window_size - 1 |-> SmoothAt(list, k)]

\* self.slot_counts[i] += ... in place of =
smooth_accumulate(self_slot_counts, list) ==
    [k \in DOMAIN self_slot_counts |-> self_slot_counts[k] + SmoothAt(list, k)]

\* the full window length as divisor at the array ends too
smooth_fixed_divisor(self_slot_counts, list) ==
    [k \in DOMAIN self_slot_counts |->
        SumSlice(list, Max(0, k - window_size),
                 Min(Len0(list), k + window_size + 1))
            \div (2 * window_size + 1)]

smooth_slot_counts(self_slot_counts, list) ==
    [k \in DOMAIN self_slot_counts |-> SmoothAt(list, k)]

SimulateEnd ==
    /\ pc = "loop"
    /\ i = n
    /\ slot_counts' = smooth_slot_counts(slot_counts, slots)
    /\ slots' = << >>
    /\ i' = 0
    /\ pc' = "idle"
    /\ result' = "returned"
    /\ UNCHANGED <<config, num_balls, image, drawn, n, bin_index, ballLocals,
                   last>>

\* ------------------------------------------------------- generate_image
calculate_bar_height(frequency, max_frequency) ==
    IF max_frequency = 0 THEN 0
    ELSE (frequency * board_height) \div max_frequency

\* x0 <= board_width // 2 in place of <
BarColorInclusive(x0) ==
    IF x0 <= board_width \div 2 THEN LEFT_HALF_COLOR ELSE RIGHT_HALF_COLOR

BarColor(x0) ==
    IF x0 < board_width \div 2 THEN LEFT_HALF_COLOR ELSE RIGHT_HALF_COLOR

\* the arguments draw_bar hands to draw.rectangle
BarRect(frequency, index, max_frequency, bar_width) ==
    LET bar_height == calculate_bar_height(frequency, max_frequency)
        x0 == index * bar_width
    IN  [x0 |-> x0, y0 |-> board_height - bar_height,
         x1 |-> x0 + bar_width, y1 |-> board_height, color |-> BarColor(x0)]

\* ImageDraw.rectangle: both corners inclusive, clipped to the canvas
\* an XOR-style fill: a pixel that already has the colour is reset
RectangleXor(img, r) ==
    [p \in DOMAIN img |->
        IF /\ r.x0 <= p[1] /\ p[1] <= r.x1
           /\ r.y0 <= p[2] /\ p[2] <= r.y1
        THEN (IF img[p] = r.color THEN BACKGROUND_COLOR ELSE r.color)
        ELSE img[p]]

Rectangle(img, r) ==
    [p \in DOMAIN img |->
        IF /\ r.x0 <= p[1] /\ p[1] <= r.x1
           /\ r.y0 <= p[2] /\ p[2] <= r.y1
        THEN r.color ELSE img[p]]

BarWidth == Max(1, board_width \div Len0(slot_counts))

HistogramRects ==
    [k \in 1 .. Len0(slot_counts) |->
        BarRect(slot_counts[k - 1], k - 1, MaxFrom(slot_counts, 0), BarWidth)]

RECURSIVE DrawRects(_, _, _)
DrawRects(img, rects, k) ==
    IF k > Len(rects) THEN img
    ELSE DrawRects(Rectangle(img, rects[k]), rects, k + 1)

draw_histogram(img) == DrawRects(img, HistogramRects, 1)

GenerateImage ==
    /\ pc = "idle"
    /\ image' = draw_histogram(image)
    /\ drawn' = HistogramRects
    /\ last' = "generate_image"
    /\ UNCHANGED <<config, num_balls, slot_counts, pc, slots, n, i, bin_index,
                   ballLocals, result>>

\* ------------------------------------------------------------ behaviours
Next ==
    \/ SetNumBalls
    \/ SimulateBegin
    \/ BallBegin
    \/ BallRow
    \/ BallLands
    \/ SimulateEnd
    \/ GenerateImage

Spec == Init /\ [][Next]_vars

\* ================================================================ claims
Pixels == DOMAIN image
Blank == \A p \in Pixels : image[p] = BACKGROUND_COLOR
SimulateReturns == pc = "loop" /\ pc' = "idle" /\ result' = "returned"

\* every (position, momentum) a ball can have on entering row r
RECURSIVE Entering(_)
Entering(r) ==
    IF r = 0 THEN {<<StartPosition(g), 0>> : g \in GaussDraws}
    ELSE {<<Clamp(e[1] + NextMomentum(e[2], u, e[1], r - 1)),
            NextMomentum(e[2], u, e[1], r - 1)>> :
              e \in Entering(r - 1), u \in UniformDraws}

\* C1: every value calculate_bin_index returns is an integer in
\* [0, board_width - 1], for every board with num_rows >= 0 and
\* board_width > 0 and every sequence of random draws.
C1_BinIndexInRange == bin_index \in 0 .. board_width - 1

\* C2: when the ball loop of simulate finishes, the raw counts sum to
\* exactly num_balls; with num_balls = 0 they are all zero.
C2_RawCountsSum ==
    (pc = "loop" /\ i = n) =>
        /\ SumSlice(slots, 0, board_width) = num_balls
        /\ (num_balls = 0 => \A k \in DOMAIN slots : slots[k] = 0)

C2_Witness ==
    /\ pc = "loop"
    /\ i = n
    /\ n = MaxBalls
    /\ \E j, k \in DOMAIN slots : j # k /\ slots[j] >= 2 /\ slots[k] >= 1

\* C3: in every reachable state slot_counts has exactly board_width elements,
\* each a non-negative integer.
C3_SlotCountsShape ==
    /\ DOMAIN slot_counts = 0 .. board_width - 1
    /\ \A k \in DOMAIN slot_counts : slot_counts[k] \in Nat

C3_Witness ==
    /\ last = "generate_image"
    /\ result = "returned"
    /\ num_balls # n
    /\ \E k \in DOMAIN slot_counts : slot_counts[k] > 0
    /\ \E k \in DOMAIN slot_counts : slot_counts[k] = 0

RECURSIVE SumOver(_, _)
SumOver(f, S) ==
    IF S = {} THEN 0
    ELSE LET x == CHOOSE x \in S : TRUE IN f[x] + SumOver(f, S \ {x})

Window(k, len) ==
    {j \in 0 .. len - 1 : j >= k - 3 /\ j <= k + 3}

C5_Smoothing ==
    [][SimulateReturns =>
          \A k \in 0 .. board_width - 1 :
              LET W == Window(k, board_width)
              IN  /\ slot_counts'[k] * Cardinality(W) <= SumOver(slots, W)
                  /\ SumOver(slots, W) < (slot_counts'[k] + 1) * Cardinality(W)]_vars

C5_Witness ==
    /\ pc = "idle"
    /\ last = "simulate"
    /\ result = "returned"
    /\ board_width > 2 * window_size + 1
    /\ slot_counts[0] = 1
    /\ slot_counts[window_size] = 0

\* C6: generate_image called again with slot_counts unchanged leaves the
\* canvas pixel for pixel as the call before left it.
C6_Idempotent ==
    (pc = "idle" /\ last = "generate_image") => draw_histogram(image) = image

C6_Witness ==
    /\ pc = "idle"
    /\ last = "generate_image"
    /\ ~Blank
    /\ \E k \in DOMAIN slot_counts : slot_counts[k] > 0

\* C7: after generate_image on a board whose latest simulate ran with
\* num_balls = 0, every pixel has the background colour, whatever calls
\* came before.
C7_ZeroBallsBlank ==
    (last = "generate_image" /\ result = "returned" /\ n = 0) => Blank

\* C8 (as claimed): a bar is drawn in the left colour exactly when its left
\* edge x0 satisfies x0 < board_width / 2 in real division.
C8_ColorRealHalf ==
    \A k \in 1 .. Len(drawn) :
        drawn[k].color = LEFT_HALF_COLOR <=> 2 * drawn[k].x0 < board_width

\* C8 (amended): a bar is drawn in the left colour exactly when its left
\* edge x0 = index * bar_width satisfies x0 < floor(board_width / 2), and
\* in the right colour otherwise.
C8_ColorFloorHalf ==
    \A k \in 1 .. Len(drawn) :
        /\ drawn[k].x0 = (k - 1) * BarWidth
        /\ drawn[k].color \in {LEFT_HALF_COLOR, RIGHT_HALF_COLOR}
        /\ drawn[k].color = LEFT_HALF_COLOR
              <=> 2 * (drawn[k].x0 + 1) <= board_width

C8_Witness ==
    /\ last = "generate_image"
    /\ board_width % 2 = 1
    /\ \E k \in 1 .. Len(drawn) :
          /\ 2 * drawn[k].x0 + 1 = board_width
          /\ drawn[k].color = RIGHT_HALF_COLOR
          /\ drawn[k].y0 < board_height

C10_ProbGrowsRightwards ==
    (pc = "row" /\ row < num_rows) =>
        /\ BounceProb(position, row) >= (2 * Scale) \div 10
        /\ BounceProb(position, row) <= (8 * Scale) \div 10
        /\ \A e \in Entering(row) :
              e[1] > position =>
                  BounceProb(e[1], row) > BounceProb(position, row)

====
